---- MODULE Spec2Model ----
(***************************************************************************)
(* A model of COBOLDocumentationAgent (src/attached_assets/agent_fixed.py) *)
(* and of the way app.py drives it: one agent per request, preferences     *)
(* applied, analyze_cobol_structure, then generate_documentation.          *)
(*                                                                         *)
(* Texts are sequences of tokens.  A COBOL source is a sequence of words   *)
(* and periods; a documentation text is a sequence of prose, heading,      *)
(* fence and diagram-code tokens.  The regular expressions of the code are *)
(* modelled by scans over these tokens.                                    *)
(*                                                                         *)
(* Covered: preferences, provider resolution, the structure analysis with  *)
(* its fallbacks, the composition of the documentation with its fallback,  *)
(* diagram validation and enhancement, the separation of the thinking      *)
(* process, the memory and the two quality evaluators.  Left out: the      *)
(* enrichment of the prompt (mcp_client), the explanations appended by     *)
(* _add_mcp_explanations, the tabbed view and the monitoring calls.        *)
(*                                                                         *)
(* The modules under utils/ are not part of the sources at hand.  What an  *)
(* LLM call returns is a free choice among texts, values and an error.     *)
(***************************************************************************)
EXTENDS Integers, Sequences, FiniteSets, TLC

VARIABLES
    pc,           \* position of the request in the pipeline
    prefs,        \* agent.user_preferences
    registry,     \* llm_selector.get_providers()
    groqKey,      \* os.environ has a non-empty GROQ_API_KEY
    memory,       \* agent.memory
    frame,        \* arguments of the call in progress (or of the last call)
    sd,           \* value returned by analyze_cobol_structure
    outcome,      \* "none", "returned" or "raised" for the last call
    path,         \* branch taken by the last provider resolution
    calls,        \* LLM invocations made by the call in progress, in order
    doc,          \* documentation text being built / returned
    parsed,       \* "ok" / "error" once json.loads has run on an LLM payload
    accepted,     \* the LLM-enhanced text replaced the document
    attempts,     \* passes made by the diagram-correction loop
    history,      \* every item ever passed to remember, in order
    quality,      \* last result of a quality evaluator, with its input
    ledger,       \* the ledger and the process_ledger_source request in progress
    shared,       \* state shared by concurrent requests, and what each observed
    env,          \* how the collaborators behave during the request
    session       \* the Flask session of one browser and the last poll's answer

vars == <<pc, prefs, registry, groqKey, memory, frame, sd, outcome, path,
          calls, doc, parsed, accepted, attempts, history, quality,
          ledger, shared, env, session>>

(***************************************************************************)
(* Bounds of the model.                                                    *)
(***************************************************************************)
MaxSrcLen == 3
MaxPieces == 2
MaxEnhPieces == 1
MaxRemember == 12
MaxRequests == 2

(***************************************************************************)
(* Program constants.                                                      *)
(***************************************************************************)
max_memory_items == 10
max_attempts == 2

Unset == "<unset>"
NoValue == "<none>"

DefaultProvider == "groq"
DefaultModel == "llama-3.3-70b-versatile"
SmallModel == "llama-3.1-8b-versatile"
Providers == {"groq", "openai"}
Models == {DefaultModel, "gpt-4o"}

NoKeyMessage == "Error: No API keys available for any LLM provider"
ParseFailMessage == "Could not automatically extract program description."

(***************************************************************************)
(* Generic helpers.                                                        *)
(***************************************************************************)
SeqsUpTo(S, n) == UNION {[1..k -> S] : k \in 0..n}

RECURSIVE Flatten(_)
Flatten(ss) == IF ss = <<>> THEN <<>> ELSE Head(ss) \o Flatten(Tail(ss))

Count(s, S) == Cardinality({i \in 1..Len(s) : s[i] \in S})

(***************************************************************************)
(* Preferences.                                                            *)
(***************************************************************************)
PrefKeys == {"llm_provider", "llm_model", "enhanced_diagrams", "audience"}

PrefValues(k) ==
    CASE k = "llm_provider" -> Providers \ {DefaultProvider}
      [] k = "llm_model" -> Models \ {DefaultModel}
      [] k = "enhanced_diagrams" -> {"true", "false"}
      [] k = "audience" -> {"business"}

Truthy(v) == v \notin {"false", "", Unset}

get_user_preference(key, default) ==
    IF prefs[key] = Unset THEN default ELSE prefs[key]

(***************************************************************************)
(* COBOL sources and the heuristic pre-parse.                              *)
(***************************************************************************)
SrcTokens == {"PROGRAM-ID", ".", "PAYROLL", "DIVISION"}
Sources == SeqsUpTo(SrcTokens, MaxSrcLen)
IsWord(t) == t # "."

\* re.search(r'PROGRAM-ID\s*\.\s*([\w-]+)'): the word after the first
\* PROGRAM-ID marker that is followed by a period and a word.
ProgramIdMatches(code) ==
    {i \in 1..(Len(code) - 2) :
        /\ code[i] = "PROGRAM-ID"
        /\ code[i + 1] = "."
        /\ IsWord(code[i + 2])}

FirstOf(S) == CHOOSE i \in S : \A j \in S : i <= j


extract_program_id(code) ==
    IF ProgramIdMatches(code) # {}
    THEN code[FirstOf(ProgramIdMatches(code)) + 2]
    ELSE "Unknown"

\* re.finditer(r'([\w-]+)\s+DIVISION'): leftmost, non-overlapping matches.
RECURSIVE DivisionsFrom(_, _)
DivisionsFrom(code, i) ==
    IF i + 1 > Len(code) THEN <<>>
    ELSE IF IsWord(code[i]) /\ code[i + 1] = "DIVISION"
         THEN <<code[i]>> \o DivisionsFrom(code, i + 2)
         ELSE DivisionsFrom(code, i + 1)
\* a sequence without the items equal to the one just before them
RECURSIVE DropAdjacentRepeats(_)
DropAdjacentRepeats(s) ==
    IF Len(s) < 2 THEN s
    ELSE IF s[1] = s[2] THEN DropAdjacentRepeats(Tail(s))
         ELSE <<s[1]>> \o DropAdjacentRepeats(Tail(s))

\* variant of identify_divisions that drops a name equal to the one before it
identify_divisions_adjacent(code) == DropAdjacentRepeats(DivisionsFrom(code, 1))

identify_divisions(code) == DivisionsFrom(code, 1)

\* parsed_structure handed in by the caller: none, or a skeleton of its own
Skeleton(pid, divisions) ==
    [kind |-> "skeleton", program_id |-> pid, divisions |-> divisions]

Skeletons == {[kind |-> "none"], Skeleton("LEDGER", <<"DATA", "PROCEDURE">>)}

(***************************************************************************)
(* Diagram codes.  The rules a diagram has to satisfy are the ones the     *)
(* agent states in its enhancement prompt (lines 620-641); the validator   *)
(* that enforces them (utils.mermaid_validator) is not part of the sources *)
(* at hand and is modelled by its contract.                                *)
(***************************************************************************)
NoKeyDiagram ==
    "flowchart TD\n    Error[Error: No API Keys] --> Action[Please configure API keys]"
PlaceholderDiagram ==
    "flowchart TD\n    Empty[Empty Diagram] --> Placeholder[Placeholder]"
BasicDiagram == "flowchart TD\n    Start([Start Program]) --> Init[Initialize Variables] ..."
GoodDiagram == "flowchart TD\n    A --> B"
BadDiagram == "flowchart\n    start --> process data"
FixedDiagram == "flowchart TD\n    start --> process_data"

\* what the five rules look at, read off each diagram text
DiagramShape(code) ==
    CASE code = NoKeyDiagram ->
           [declared |-> TRUE, ids_ok |-> TRUE, arrows_ok |-> TRUE,
            labels_quoted |-> TRUE, balanced |-> TRUE,
            nodes |-> {"Error", "Action"}]
      [] code = PlaceholderDiagram ->
           [declared |-> TRUE, ids_ok |-> TRUE, arrows_ok |-> TRUE,
            labels_quoted |-> TRUE, balanced |-> TRUE,
            nodes |-> {"Empty", "Placeholder"}]
      [] code = BasicDiagram ->
           [declared |-> TRUE, ids_ok |-> TRUE, arrows_ok |-> TRUE,
            labels_quoted |-> TRUE, balanced |-> TRUE,
            nodes |-> {"Start", "Init", "Process", "Decision", "Success",
                       "Failure", "End"}]
      [] code = GoodDiagram ->
           [declared |-> TRUE, ids_ok |-> TRUE, arrows_ok |-> TRUE,
            labels_quoted |-> TRUE, balanced |-> TRUE, nodes |-> {"A", "B"}]
      [] code = FixedDiagram ->
           [declared |-> TRUE, ids_ok |-> TRUE, arrows_ok |-> TRUE,
            labels_quoted |-> TRUE, balanced |-> TRUE,
            nodes |-> {"start", "process_data"}]
      [] OTHER ->
           [declared |-> FALSE, ids_ok |-> FALSE, arrows_ok |-> TRUE,
            labels_quoted |-> TRUE, balanced |-> TRUE,
            nodes |-> {"start", "process data"}]

SatisfiesRules(code) ==
    LET d == DiagramShape(code)
    IN  d.declared /\ d.ids_ok /\ d.arrows_ok /\ d.labels_quoted /\ d.balanced

(***************************************************************************)
(* Structured analyses: Python dicts.  keys is the set of keys present; a  *)
(* field whose key is not present holds a filler that is never read.       *)
(***************************************************************************)
None == [kind |-> "none"]
JsonArray == [kind |-> "array"]
ParseError == [kind |-> "parse_error"]

Dict(keys, pid, description, divisions, variables, flow_diagram) ==
    [kind |-> "object", keys |-> keys, program_id |-> pid,
     description |-> description, divisions |-> divisions,
     variables |-> variables, flow_diagram |-> flow_diagram]

IsObject(v) == v.kind = "object"
Has(d, key) == key \in d.keys
Get(d, key, default) == IF key \in d.keys THEN d[key] ELSE default

AllKeys == {"program_id", "description", "divisions", "variables", "flow_diagram"}

\* objects an LLM may answer with: the program id missing, empty or given
LLMObjects ==
    {Dict(AllKeys \ {"program_id"}, "", "Computes the monthly payroll.",
          <<"PROCEDURE">>, <<"WS-TOTAL">>, GoodDiagram),
     Dict(AllKeys, "", "Computes the monthly payroll.",
          <<"PROCEDURE">>, <<"WS-TOTAL">>, GoodDiagram),
     Dict(AllKeys, "PAYROLL", "Computes the monthly payroll.",
          <<"PROCEDURE">>, <<"WS-TOTAL">>, GoodDiagram)}

\* what json.loads makes of a payload
JsonBodies ==
    {[syntax |-> "invalid", value |-> None],
     [syntax |-> "array", value |-> JsonArray]}
    \cup {[syntax |-> "object", value |-> o] : o \in LLMObjects}

json_loads(body) ==
    IF body.syntax = "invalid" THEN ParseError ELSE body.value

\* an LLM answer to the analysis prompt: a payload, fenced or not, with or
\* without prose around it
AnalysisTexts == [prose : BOOLEAN, fenced : BOOLEAN, body : JsonBodies]

\* re.search(r'```(?:json)?\s*([\s\S]*?)\s*```'): the inside of the fenced
\* block when there is one, the whole stripped text otherwise
ExtractPayload(text) ==
    IF text.fenced THEN text.body
    ELSE IF text.prose THEN [syntax |-> "invalid", value |-> None]
    ELSE text.body

(***************************************************************************)
(* Provider resolution (the if / elif / else chains of both stages).       *)
(***************************************************************************)
Handle(via, provider, model) ==
    [via |-> via, provider |-> provider, model |-> model]

NoHandle == Handle("none", NoValue, NoValue)

\* the call ended in an error of agent_monitor.log_decision, before any
\* provider was resolved
LogFailure == Handle("log_decision", NoValue, NoValue)

Call(purpose, h) ==
    [purpose |-> purpose, via |-> h.via, provider |-> h.provider, model |-> h.model]

\* variant of Resolve in which a direct Groq call always uses the default model
ResolveAlwaysDefaultModel(stage, current_provider, current_model) ==
    IF current_provider \in registry
    THEN Handle("selector", current_provider, current_model)
    ELSE IF groqKey THEN Handle("groq", "groq", DefaultModel)
    ELSE NoHandle

Resolve(stage, current_provider, current_model) ==
    IF current_provider \in registry
    THEN Handle("selector", current_provider, current_model)
    ELSE IF current_provider = "groq" /\ groqKey
    THEN Handle("groq", "groq",
                IF stage = "analysis" THEN current_model
                ELSE IF current_model = "" THEN SmallModel ELSE current_model)
    ELSE IF groqKey THEN Handle("groq", "groq", DefaultModel)
    ELSE NoHandle

(***************************************************************************)
(* Memory.                                                                 *)
(***************************************************************************)
\* variant of Remember that never evicts
RememberNoEviction(mem, item) == Append(mem, item)

Remember(mem, item) ==
    LET m == Append(mem, item)
    IN  IF Len(m) > max_memory_items THEN Tail(m) ELSE m

(***************************************************************************)
(* Quality of an analysis (_evaluate_analysis_quality).                    *)
(***************************************************************************)
\* variant of Level with both thresholds one higher
LevelOffByOne(quality_score) ==
    IF quality_score <= 2 THEN "low"
    ELSE IF quality_score <= 4 THEN "medium" ELSE "high"

\* lines 466 and 529
Level(quality_score) ==
    IF quality_score < 2 THEN "low"
    ELSE IF quality_score < 4 THEN "medium" ELSE "high"

\* the five if / else pairs: a point for a check that passes, a note for one
\* that does not
Tally(checks, notes) ==
    LET quality_score == Len(SelectSeq(checks, LAMBDA c : c))
    IN  [quality_score |-> quality_score,
         quality_level |-> Level(quality_score),
         quality_notes |->
            Flatten([i \in 1..Len(checks) |->
                        IF checks[i] THEN <<>> ELSE <<notes[i]>>])]

AnalysisChecks(structured_data) ==
    <<Has(structured_data, "program_id")
        /\ structured_data.program_id # "Unknown",
      Has(structured_data, "description")
        /\ Len(Get(structured_data, "description", "")) > 20,
      Has(structured_data, "divisions")
        /\ Len(Get(structured_data, "divisions", <<>>)) > 0,
      Has(structured_data, "variables")
        /\ Len(Get(structured_data, "variables", <<>>)) > 0,
      Has(structured_data, "flow_diagram")
        /\ Len(Get(structured_data, "flow_diagram", "")) > 50>>

AnalysisNotes ==
    <<"Missing program ID", "Description missing or too short",
      "No divisions identified", "No variables identified",
      "Flow diagram missing or incomplete">>

evaluate_analysis_quality(structured_data) ==
    Tally(AnalysisChecks(structured_data), AnalysisNotes)

(***************************************************************************)
(* analyze_cobol_structure.                                                *)
(***************************************************************************)
Raise == [kind |-> "raise"]

\* llm_selector.generate_text: an error, or some text
SelectorAnalysisOutcomes ==
    {Raise} \cup {[kind |-> "text", text |-> t] : t \in AnalysisTexts}

\* analyze_cobol_with_groq: an error, or an already parsed object
GroqAnalysisOutcomes ==
    {Raise} \cup {[kind |-> "value", value |-> o] : o \in LLMObjects}

EffectiveSkeleton(cobol_code, parsed_structure) ==
    IF parsed_structure.kind = "none"
    THEN Skeleton(extract_program_id(cobol_code), identify_divisions(cobol_code))
    ELSE parsed_structure

\* variant of ParseFallback that reads the structure the caller supplied
ParseFallbackFromSkeleton(cobol_code, parsed_structure) ==
    Dict({"program_id", "description", "divisions"},
         EffectiveSkeleton(cobol_code, parsed_structure).program_id,
         ParseFailMessage,
         EffectiveSkeleton(cobol_code, parsed_structure).divisions, <<>>, "")

ParseFallback(cobol_code, parsed_structure) ==
    Dict({"program_id", "description", "divisions"},
         extract_program_id(cobol_code), ParseFailMessage,
         identify_divisions(cobol_code), <<>>, "")
\* variant of NoProviderAnalysis that recalls the program id last remembered
NoProviderAnalysisRecalled(cobol_code) ==
    Dict(AllKeys,
         IF memory = <<>> THEN extract_program_id(cobol_code)
         ELSE memory[Len(memory)].program_id,
         NoKeyMessage, identify_divisions(cobol_code), <<>>, NoKeyDiagram)

\* variant of NoProviderAnalysis with the program id fixed to "Unknown"
NoProviderAnalysisUnknown(cobol_code) ==
    Dict(AllKeys, "Unknown", NoKeyMessage, identify_divisions(cobol_code),
         <<>>, NoKeyDiagram)

NoProviderAnalysis(cobol_code) ==
    Dict(AllKeys, extract_program_id(cobol_code), NoKeyMessage,
         identify_divisions(cobol_code), <<>>, NoKeyDiagram)

\* lines 188-213: the payload parsed, or the fallback when it does not parse
ParsedOrFallback(text, cobol_code, parsed_structure) ==
    IF json_loads(ExtractPayload(text)) = ParseError
    THEN ParseFallback(cobol_code, parsed_structure)
    ELSE json_loads(ExtractPayload(text))

AnalysisMemoryItem(structured_data) ==
    [type |-> "cobol_analysis",
     program_id |-> Get(structured_data, "program_id", "Unknown"),
     description |-> Get(structured_data, "description", "No description available")]
(***************************************************************************)
(* The ledger (utils.ledger_manager, reached through LedgerManager) as     *)
(* process_ledger_source uses it: a status per source, a status per        *)
(* document, a document id being its position in docs.                     *)
(***************************************************************************)
SourceIds == {"S1", "S2"}
NoSourceId == ""
UnknownSourceId == "S9"
NoDocId == 0

LedgerIdle ==
    [pc |-> "idle", source_id |-> NoSourceId, preferences |-> "object",
     generate_doc |-> TRUE, doc_id |-> NoDocId, response |-> 0, moved |-> FALSE,
     served |-> 0,
     sources |-> [id \in SourceIds |-> "On Queue"], docs |-> <<>>]

\* What surrounds a request: whether agent_monitor.log_decision raises, what
\* mcp_client.enrich_cobol_documentation does (returns the analysis as it is,
\* raises, or returns it with explanations added), and the preference keys
\* the request carries.
Envs ==
    [log_fails : BOOLEAN, enrichment : {"plain", "fails", "supplies"},
     request_keys : SUBSET PrefKeys]

\* a request that sets the provider, the model and the diagram preference,
\* with a working log and an enrichment that adds nothing
NominalEnv ==
    [log_fails |-> FALSE, enrichment |-> "plain",
     request_keys |-> {"llm_provider", "llm_model", "enhanced_diagrams"}]

RunIds == {"r1", "r2"}
FreshRun == [pc |-> "start", registered |-> "unread", key |-> "unread"]

\* the module-level singletons every agent uses: agent_monitor with its
\* current session, llm_selector with its current provider and model
NoSession == "<none>"
AgentIds == {"a1", "a2"}
NoAgent == [pc |-> "none", logged |-> {}]

SharedIdle ==
    [save |-> "idle", runs |-> [r \in RunIds |-> FreshRun],
     monitor |-> NoSession,
     selector |-> [provider |-> Unset, model |-> Unset],
     agents |-> [a \in AgentIds |-> NoAgent]]
\* the session of app.py's job endpoints: session['job_id'], ['cobol_code'],
\* ['job_status'] and ['documentation'] (with the temporary file of
\* session['doc_id'], which holds the same text).  Job ids are uuid4 values,
\* numbered here in the order they are drawn; documentation is the job the
\* text held was generated for.  failed and polled are history: the jobs
\* whose processing raised, and the last answer of get_job_status.
NoJob == 0
NoStatus == [status |-> "none", job |-> NoJob]
NoPoll == [job |-> NoJob, status |-> "none", documentation |-> NoJob]

SessionIdle ==
    [next |-> 1, job_id |-> NoJob, cobol_code |-> FALSE, job_status |-> NoStatus,
     documentation |-> NoJob, failed |-> {}, polled |-> NoPoll]

\* lines 17-40: a constructed agent; prior_memory and prior_log are what
\* earlier calls left in self.memory and in the monitor
InitWith(prior_memory, prior_log) ==
    /\ pc = "new"
    /\ prefs = [k \in PrefKeys |-> Unset]
    /\ registry \in SUBSET Providers
    /\ groqKey \in BOOLEAN
    /\ memory = prior_memory
    /\ frame = [op |-> "none"]
    /\ sd = None
    /\ outcome = "none"
    /\ path = NoHandle
    /\ calls = <<>>
    /\ doc = <<>>
    /\ parsed = "none"
    /\ accepted = FALSE
    /\ attempts = 0
    /\ history = prior_memory
    /\ quality = [target |-> "none"]
    /\ ledger = LedgerIdle
    /\ shared = [SharedIdle EXCEPT !.monitor = prior_log]
    /\ session = SessionIdle

InitAgent == InitWith(<<>>, NoSession)

Init == InitAgent /\ env = NominalEnv

\* app.py 787-846: the request's settings applied to the fresh agent
SetUserPreference ==
    /\ pc = "new"
    /\ \E k \in PrefKeys \cap env.request_keys : \E v \in PrefValues(k) :
          prefs' = [prefs EXCEPT ![k] = v]
    /\ UNCHANGED <<pc, registry, groqKey, memory, frame, sd, outcome, path,
                   calls, doc, parsed, accepted, attempts, history, quality,
                   ledger, shared, env, session>>

\* app.py 850 / 2385: the caller invokes the analysis
\* lines 83-104 log two decisions inside the try of the method; an error of
\* log_decision reaches the handler at 232-235, which re-raises
AnalyzeCall ==
    /\ pc = "new"
    /\ \E code \in Sources : \E ps \in Skeletons :
          frame' = [op |-> "analyze_cobol_structure", cobol_code |-> code,
                    parsed_structure |-> ps]
    /\ IF env.log_fails
       THEN pc' = "failed" /\ outcome' = "raised" /\ path' = LogFailure
       ELSE pc' = "analyzing" /\ UNCHANGED <<outcome, path>>
    /\ UNCHANGED <<prefs, registry, groqKey, memory, sd,
                   calls, doc, parsed, accepted, attempts, history, quality,
                   ledger, shared, env, session>>

AnalyzeRaises(status) ==
    /\ pc' = "failed"
    /\ outcome' = "raised"
    /\ sd' = None
    /\ parsed' = status
    /\ UNCHANGED <<memory, history, quality, ledger, shared, env, session>>

AnalyzeReturnsEarly(value) ==
    /\ pc' = "analyzed"
    /\ outcome' = "returned"
    /\ sd' = value
    /\ parsed' = "none"
    /\ UNCHANGED <<memory, history, quality, ledger, shared, env, session>>

AnalyzeViaSelector(h) ==
    \E r \in SelectorAnalysisOutcomes :
       IF r.kind = "raise"
       THEN AnalyzeRaises("none")
       ELSE LET structured_data ==
                    ParsedOrFallback(r.text, frame.cobol_code,
                                     frame.parsed_structure)
            IN  IF ~IsObject(structured_data)
                THEN \* structured_data.get fails; the handler re-raises
                     AnalyzeRaises("ok")
                ELSE /\ pc' = "analyzed"
                     /\ outcome' = "returned"
                     /\ parsed' = IF json_loads(ExtractPayload(r.text)) = ParseError
                                  THEN "error" ELSE "ok"
                     /\ sd' = structured_data
                     /\ memory' =
                          Remember(memory, AnalysisMemoryItem(structured_data))
                     /\ history' =
                          Append(history, AnalysisMemoryItem(structured_data))
                     /\ quality' =
                          [target |-> "analysis",
                           result |-> evaluate_analysis_quality(structured_data)]

AnalyzeViaGroq(h) ==
    \E r \in GroqAnalysisOutcomes :
       IF r.kind = "raise"
       THEN AnalyzeRaises("none")
       ELSE AnalyzeReturnsEarly(r.value)

AnalyzeRun ==
    /\ pc = "analyzing"
    /\ LET h == Resolve("analysis",
                        get_user_preference("llm_provider", "groq"),
                        get_user_preference("llm_model", DefaultModel))
       IN  /\ path' = h
           /\ calls' = IF h.via = "none" THEN <<>> ELSE <<Call("analysis", h)>>
           /\ CASE h.via = "selector" -> AnalyzeViaSelector(h)
                [] h.via = "groq" -> AnalyzeViaGroq(h)
                [] OTHER -> AnalyzeReturnsEarly(NoProviderAnalysis(frame.cobol_code))
    /\ UNCHANGED <<prefs, registry, groqKey, frame, doc, accepted, attempts, ledger, shared, env, session>>

(***************************************************************************)
(* Documentation texts.  Tokens: "T" a paragraph of prose, "H" a top-level *)
(* heading line, "HD" a top-level heading that is a documentation title,   *)
(* "H2" a second-level heading, "M" the fence ```mermaid, "F" the fence    *)
(* ```, and diagram codes.                                                 *)
(***************************************************************************)
Block(code) == <<"M", code, "F">>
EmptyBlock == <<"M", "F">>

\* the pieces an LLM text is made of
Pieces ==
    {<<"T">>, <<"H">>, Block(GoodDiagram), Block(BadDiagram), EmptyBlock, <<"M">>}

Texts(n) == {Flatten(ps) : ps \in SeqsUpTo(Pieces, n)}

\* lines 805-818 and 832-840
NoKeyDocument == <<"HD", "H2", "T", "M", NoKeyDiagram, "F">>
GroqErrorDocument == <<"HD", "H2", "T">>

Fences == {"M", "F"}
HasMermaid(text) == \E i \in 1..Len(text) : text[i] = "M"
CountMermaid(text) == Count(text, {"M"})

SubSeqFrom(text, i) == SubSeq(text, i, Len(text))

\* index of the first fence at or after j, or 0
RECURSIVE NextFence(_, _)
NextFence(text, j) ==
    IF j > Len(text) THEN 0
    ELSE IF text[j] \in Fences THEN j ELSE NextFence(text, j + 1)

\* index of the fence closing the block opened at i, or 0
Closer(text, i) == NextFence(text, i + 1)

\* the matches of r'```mermaid\s*([\s\S]*?)\s*```' from position i on, as
\* pairs <<opener, closer>>, leftmost and non-overlapping
RECURSIVE Matches(_, _)
Matches(text, i) ==
    IF i > Len(text) THEN <<>>
    ELSE LET c == Closer(text, i)
         IN  IF text[i] = "M" /\ c # 0
             THEN <<<<i, c>>>> \o Matches(text, c + 1)
             ELSE Matches(text, i + 1)

CodeOf(text, m) == SubSeq(text, m[1] + 1, m[2] - 1)

\* the validator: a code that satisfies the rules is returned as it is, any
\* other is replaced by a correction that does, or by the placeholder when
\* no correction can be derived
IsValidCode(code) == Len(code) = 1 /\ SatisfiesRules(code[1])

validate_mermaid_syntax(code) ==
    IF IsValidCode(code) THEN code
    ELSE IF code = <<BadDiagram>> THEN <<FixedDiagram>>
    ELSE <<PlaceholderDiagram>>
\* variant of FixBlock that leaves an empty block empty
FixBlockKeepsEmpty(code) ==
    IF code = <<>> THEN <<>>
    ELSE validate_mermaid_syntax(code)

\* validate_diagram / check_and_fix_diagram: the replacement of one block
FixBlock(code) ==
    IF code = <<>> THEN <<PlaceholderDiagram>>
    ELSE validate_mermaid_syntax(code)

\* re.sub(pattern, ..., text)
RECURSIVE SubFrom(_, _)
SubFrom(text, i) ==
    IF i > Len(text) THEN <<>>
    ELSE LET c == Closer(text, i)
         IN  IF text[i] = "M" /\ c # 0
             THEN <<"M">> \o FixBlock(SubSeq(text, i + 1, c - 1))
                  \o <<text[c]>> \o SubFrom(text, c + 1)
             ELSE <<text[i]>> \o SubFrom(text, i + 1)

FixDiagrams(text) == SubFrom(text, 1)

ValidBlocks(text) ==
    LET ms == Matches(text, 1)
    IN  {k \in 1..Len(ms) : IsValidCode(CodeOf(text, ms[k]))}

(***************************************************************************)
(* Quality of a documentation text (_evaluate_documentation_quality),      *)
(* computed from what it measures in the text.                             *)
(***************************************************************************)
TokenMeasure(t) ==
    CASE t = "T"  -> [chars |-> 400, hashes |-> 0, fences |-> 0, words |-> 60]
      [] t = "H"  -> [chars |-> 30, hashes |-> 1, fences |-> 0, words |-> 4]
      [] t = "HD" -> [chars |-> 30, hashes |-> 1, fences |-> 0, words |-> 5]
      [] t = "H2" -> [chars |-> 30, hashes |-> 2, fences |-> 0, words |-> 5]
      [] t = "HT" -> [chars |-> 30, hashes |-> 1, fences |-> 0, words |-> 4]
      [] t = "M"  -> [chars |-> 11, hashes |-> 0, fences |-> 1, words |-> 1]
      [] t = "F"  -> [chars |-> 4, hashes |-> 0, fences |-> 1, words |-> 1]
      [] OTHER    -> [chars |-> Len(t), hashes |-> 0, fences |-> 0, words |-> 6]

RECURSIVE SumOver(_, _)
SumOver(text, field) ==
    IF text = <<>> THEN 0
    ELSE TokenMeasure(Head(text))[field] + SumOver(Tail(text), field)

Measure(text) ==
    [chars |-> SumOver(text, "chars"), hashes |-> SumOver(text, "hashes"),
     fences |-> SumOver(text, "fences"), mermaid |-> HasMermaid(text),
     words |-> SumOver(text, "words")]

DocumentationChecks(m) ==
    <<m.chars > 1000, m.hashes > 3, m.fences >= 2, m.mermaid, m.words > 300>>

DocumentationNotes ==
    <<"Documentation is too short", "Too few section headings",
      "No code examples included", "No diagrams included",
      "Insufficient explanation text">>

evaluate_documentation_quality(m) ==
    Tally(DocumentationChecks(m), DocumentationNotes)

(***************************************************************************)
(* _separate_thinking_process.                                             *)
(***************************************************************************)
TitleTokens == {"HD"}
HeadingTokens == {"H", "HD", "HT"}

Positions(text, S) == {i \in 1..Len(text) : text[i] \in S}

\* str.strip(): "WS" stands for a run of blanks and line ends
RECURSIVE Strip(_)
\* variant of Strip that removes the leading blanks only
RECURSIVE StripLeading(_)
StripLeading(text) ==
    IF text = <<>> THEN text
    ELSE IF text[1] = "WS" THEN StripLeading(Tail(text))
    ELSE text

Strip(text) ==
    IF text = <<>> THEN text
    ELSE IF text[1] = "WS" THEN Strip(Tail(text))
    ELSE IF text[Len(text)] = "WS" THEN Strip(SubSeq(text, 1, Len(text) - 1))
    ELSE text

\* variant of SplitAt that drops what precedes the heading
SplitAtDropsPreamble(text, pos) == Strip(SubSeqFrom(text, pos))

\* lines 761-770 and 777-786: both parts are stripped, and the heading
\* "# Thinking Process" ("HT") is added only before a non-empty preamble
SplitAt(text, pos) ==
    LET thinking_process == Strip(SubSeq(text, 1, pos - 1))
        main_documentation == Strip(SubSeqFrom(text, pos))
    IN  IF thinking_process # <<>>
        THEN main_documentation \o <<"HT">> \o thinking_process
        ELSE main_documentation

separate_thinking_process(text) ==
    IF Positions(text, TitleTokens) # {}
    THEN SplitAt(text, FirstOf(Positions(text, TitleTokens)))
    ELSE IF Positions(text, HeadingTokens) # {}
    THEN SplitAt(text, FirstOf(Positions(text, HeadingTokens)))
    ELSE text

(***************************************************************************)
(* generate_documentation.                                                 *)
(***************************************************************************)
\* llm_selector.generate_text / generate_with_groq: an error, or some text
ComposeOutcomes ==
    {Raise} \cup {[kind |-> "text", text |-> t] : t \in Texts(MaxPieces)}

\* generate_with_groq asked to enhance: an error, nothing, or some text
EnhanceOutcomes ==
    {Raise} \cup {[kind |-> "text", text |-> t] : t \in Texts(MaxEnhPieces)}

DocumentationMemoryItem(structured_data, text) ==
    [type |-> "documentation",
     program_id |-> Get(structured_data, "program_id", "Unknown"),
     doc_preview |-> SubSeq(text, 1, IF Len(text) > 0 THEN 1 ELSE 0)]

\* analyses handed to the composer: the kinds the analysis returns
StructuredInputs ==
    {Dict(AllKeys, "PAYROLL", "Computes the monthly payroll.",
          <<"PROCEDURE">>, <<"WS-TOTAL">>, GoodDiagram),
     Dict(AllKeys, "Unknown", NoKeyMessage, <<>>, <<>>, NoKeyDiagram)}

\* what enrichment can add: construct_explanations, a dict from construct
\* to {"explanation": text}, in insertion order
Explanation(construct, explanation) ==
    [construct |-> construct, explanation |-> explanation]

ExplanationLists ==
    {<<Explanation("PERFORM", "EX-PERFORM")>>,
     <<Explanation("PERFORM", "EX-PERFORM"), Explanation("COMPUTE", "EX-COMPUTE")>>,
     <<Explanation("PERFORM", "EX-PERFORM"), Explanation("GOTO", "")>>}

Enriched(structured_data, explanations) ==
    [f \in DOMAIN structured_data \cup {"construct_explanations"} |->
        IF f = "construct_explanations" THEN explanations
        ELSE IF f = "keys" THEN structured_data.keys \cup {"construct_explanations"}
        ELSE structured_data[f]]

\* mcp_client.enrich_cobol_documentation(structured_data, audience_type)
EnrichmentOutcomes(structured_data) ==
    CASE env.enrichment = "fails" -> {Raise}
      [] env.enrichment = "supplies" ->
           {[kind |-> "value", value |-> Enriched(structured_data, e)] :
               e \in ExplanationLists}
      [] OTHER -> {[kind |-> "value", value |-> structured_data]}

\* variant of EnrichedOrOriginal that keeps what a failed enrichment had added
EnrichedOrPartial(structured_data, r) ==
    IF r.kind = "raise"
    THEN Enriched(structured_data, <<Explanation("PERFORM", "EX-PERFORM")>>)
    ELSE r.value

\* lines 275-291: the enriched analysis, or the original when enrichment
\* raises
EnrichedOrOriginal(structured_data, r) ==
    IF r.kind = "raise" THEN structured_data ELSE r.value

\* app.py 851 / 2405: the caller hands an analysis to the composer; lines
\* 244-291: a decision is logged inside the try of the method (an error of
\* log_decision reaches the handler at 394-397, which re-raises), then the
\* analysis is enriched
GenerateCall ==
    /\ pc = "new"
    /\ \E structured_data \in StructuredInputs :
       \E r \in EnrichmentOutcomes(structured_data) :
          frame' = [op |-> "generate_documentation",
                    structured_data |-> structured_data,
                    data |-> IF env.log_fails THEN structured_data
                             ELSE EnrichedOrOriginal(structured_data, r)]
    /\ IF env.log_fails
       THEN pc' = "failed" /\ outcome' = "raised" /\ path' = LogFailure
       ELSE pc' = "composing" /\ UNCHANGED <<outcome, path>>
    /\ UNCHANGED <<prefs, registry, groqKey, memory, sd, calls,
                   doc, parsed, accepted, attempts, history, quality,
                   ledger, shared, env, session>>

\* lines 355-364: the text is scored, then sent to validation or not
Composed(text) ==
    /\ doc' = text
    /\ quality' = [target |-> "documentation",
                   result |-> evaluate_documentation_quality(Measure(text))]
    /\ outcome' = "none"
    /\ pc' = IF ~HasMermaid(text)
                \/ Truthy(get_user_preference("enhanced_diagrams", "false"))
             THEN "validating" ELSE "postprocessing"

ComposeRaises ==
    /\ pc' = "failed"
    /\ outcome' = "raised"
    /\ UNCHANGED <<doc, quality, ledger, shared, env, session>>

\* _fallback_to_groq_for_documentation
FallbackToGroq(before) ==
    IF ~groqKey
    THEN /\ calls' = before
         /\ Composed(NoKeyDocument)
    ELSE /\ calls' = Append(before,
                            Call("compose", Handle("groq", "groq", DefaultModel)))
         /\ \E r \in ComposeOutcomes :
               IF r.kind = "raise" THEN Composed(GroqErrorDocument)
               ELSE Composed(r.text)

\* lines 237-360
Compose ==
    /\ pc = "composing"
    /\ LET h == Resolve("compose",
                        get_user_preference("llm_provider", "groq"),
                        get_user_preference("llm_model", DefaultModel))
       IN  /\ path' = h
           /\ CASE h.via = "selector" ->
                     /\ calls' = <<Call("compose", h)>>
                     /\ \E r \in ComposeOutcomes :
                           IF r.kind = "raise" THEN ComposeRaises
                           ELSE Composed(r.text)
                [] h.via = "groq" /\ get_user_preference("llm_provider", "groq") = "groq" ->
                     \E r \in ComposeOutcomes :
                        IF r.kind = "raise"
                        THEN FallbackToGroq(<<Call("compose", h)>>)
                        ELSE /\ calls' = <<Call("compose", h)>>
                             /\ Composed(r.text)
                [] OTHER -> FallbackToGroq(<<>>)
    /\ UNCHANGED <<prefs, registry, groqKey, memory, frame, sd, parsed,
                   accepted, attempts, history,
                   ledger, shared, env, session>>
\* lines 591-601: the texts written in the nodes of the basic flow diagram
BasicDiagramLabels ==
    {"Start Program", "Initialize Variables", "Process Data", "Decision Point",
     "Success Path", "Failure Path", "End Program"}

\* variant of ValidateAndRepair that appends the basic diagram whatever the
\* text holds
ValidateAndRepairAlwaysAppends(text) ==
    (IF HasMermaid(text) THEN FixDiagrams(text) ELSE text)
        \o <<"H2", "M", BasicDiagram, "F">>

\* _enhance_with_diagrams, lines 546-610: existing diagrams validated and
\* fixed, a basic diagram appended when there is none
ValidateAndRepair(text) ==
    LET ms == Matches(text, 1)
        fixed == IF HasMermaid(text) THEN FixDiagrams(text) ELSE text
        has_valid_diagrams ==
            HasMermaid(text) /\ \E k \in 1..Len(ms) : CodeOf(text, ms[k]) # <<>>
    IN  IF ~has_valid_diagrams /\ ~HasMermaid(fixed)
        THEN fixed \o <<"H2", "M", BasicDiagram, "F">>
        ELSE fixed

ValidateRepair ==
    /\ pc = "validating"
    /\ doc' = ValidateAndRepair(doc)
    /\ pc' = "enhancing"
    /\ UNCHANGED <<prefs, registry, groqKey, memory, frame, sd, outcome, path,
                   calls, parsed, accepted, attempts, history, quality,
                   ledger, shared, env, session>>

\* lines 687-712: the correction loop over the enhanced text
HasIssues(text) ==
    LET ms == Matches(text, 1)
    IN  \E k \in 1..Len(ms) : FixBlock(CodeOf(text, ms[k])) # CodeOf(text, ms[k])

RECURSIVE CorrectionLoop(_, _, _)
\* variant of CorrectionLoop that makes a third pass
RECURSIVE CorrectionLoopThreePasses(_, _, _)
CorrectionLoopThreePasses(text, has_issues, done) ==
    IF done < max_attempts + 1
    THEN CorrectionLoopThreePasses(FixDiagrams(text), HasIssues(text), done + 1)
    ELSE [text |-> text, attempts |-> done]

CorrectionLoop(text, has_issues, done) ==
    IF has_issues /\ done < max_attempts
    THEN CorrectionLoop(FixDiagrams(text), HasIssues(text), done + 1)
    ELSE [text |-> text, attempts |-> done]

\* variant of AcceptEnhanced that accepts any enhanced text
AcceptAlways(original, enhanced) == TRUE

\* lines 714-723
AcceptEnhanced(original, enhanced) == CountMermaid(enhanced) > 0

\* variant of EnhancedOrKept that always takes the enhanced text
EnhancedAlways(original, enhanced) == enhanced

\* lines 714-723: the enhanced text replaces the document only if accepted
EnhancedOrKept(original, enhanced) ==
    IF AcceptEnhanced(original, enhanced) THEN enhanced ELSE original

\* lines 612-737
Enhance ==
    /\ pc = "enhancing"
    /\ IF Truthy(get_user_preference("enhanced_diagrams", "true"))
          /\ Truthy(get_user_preference("llm_provider", "groq"))
       THEN /\ calls' = Append(calls,
                  Call("enhance", Handle("groq", "groq", DefaultModel)))
            /\ \E r \in EnhanceOutcomes :
                  IF r.kind = "raise" \/ r.text = <<>>
                  THEN UNCHANGED <<doc, accepted, attempts, ledger, shared, env, session>>
                  ELSE LET fixed == CorrectionLoop(r.text, TRUE, 0)
                       IN  /\ attempts' = fixed.attempts
                           /\ accepted' = AcceptEnhanced(doc, fixed.text)
                           /\ doc' = EnhancedOrKept(doc, fixed.text)
       ELSE UNCHANGED <<calls, doc, accepted, attempts, ledger, shared, env, session>>
    /\ pc' = "postprocessing"
    /\ UNCHANGED <<prefs, registry, groqKey, memory, frame, sd, outcome, path,
                   parsed, history, quality,
                   ledger, shared, env, session>>

\* variant of add_mcp_explanations that lists the first construct only
add_mcp_explanations_first_only(documentation, structured_data) ==
    documentation \o <<"H2S", "T">>
        \o <<"H3", structured_data.construct_explanations[1].explanation>>

\* _add_mcp_explanations, lines 842-894: the section "Simplified
\* Explanations" ("H2S") with its introduction, then a heading ("H3") and
\* the explanation for every construct whose explanation is not empty
add_mcp_explanations(documentation, structured_data) ==
    LET e == structured_data.construct_explanations
    IN  documentation \o <<"H2S", "T">>
            \o Flatten([i \in 1..Len(e) |->
                           IF e[i].explanation # ""
                           THEN <<"H3", e[i].explanation>> ELSE <<>>])

\* lines 366-368
WithExplanations(documentation, structured_data) ==
    IF get_user_preference("audience", "technical") # "technical"
       /\ Has(structured_data, "construct_explanations")
    THEN add_mcp_explanations(documentation, structured_data)
    ELSE documentation

\* variant of post_process that appends the explanations after the separation
post_process_explanations_last(documentation, structured_data) ==
    WithExplanations(separate_thinking_process(documentation), structured_data)

\* lines 366-373: the explanations are appended, then the thinking process
\* is separated (the tabbed view of lines 376-382, utils.mermaid_viewer, is
\* not part of the sources at hand and is left out)
post_process(documentation, structured_data) ==
    separate_thinking_process(WithExplanations(documentation, structured_data))

\* lines 366-392
PostProcess ==
    /\ pc = "postprocessing"
    /\ LET final == post_process(doc, frame.data)
       IN  /\ doc' = final
           /\ memory' = Remember(memory,
                           DocumentationMemoryItem(frame.data, final))
           /\ history' = Append(history,
                           DocumentationMemoryItem(frame.data, final))
    /\ outcome' = "returned"
    /\ pc' = "documented"
    /\ UNCHANGED <<prefs, registry, groqKey, frame, sd, path, calls, parsed,
                   accepted, attempts, quality,
                   ledger, shared, env, session>>

(***************************************************************************)
(* remember called directly, any number of times.                          *)
(***************************************************************************)
MemoryItems == {[type |-> "note", content |-> "a"], [type |-> "note", content |-> "b"]}

InitMemory == Init /\ registry = {} /\ groqKey = FALSE

RememberCall ==
    /\ Len(history) < MaxRemember
    /\ \E item \in MemoryItems :
          /\ memory' = Remember(memory, item)
          /\ history' = Append(history, item)
    /\ UNCHANGED <<pc, prefs, registry, groqKey, frame, sd, outcome, path,
                   calls, doc, parsed, accepted, attempts, quality,
                   ledger, shared, env, session>>

NextMemory == RememberCall

SpecMemory == InitMemory /\ [][NextMemory]_vars

(***************************************************************************)
(* The two quality evaluators applied to inputs around every threshold.    *)
(***************************************************************************)
Description20 == "Payroll batch report"
Description21 == "Payroll batch reports"
Flow50 == "flowchart TD\n    Start --> Compute --> Print_Total"
Flow51 == "flowchart TD\n    Start --> Compute --> Print_Totals"

AnalysisInputs ==
    {Dict(keys, pid, description, divisions, variables, flow_diagram) :
        keys \in SUBSET AllKeys,
        pid \in {"Unknown", "PAYROLL"},
        description \in {Description20, Description21},
        divisions \in {<<>>, <<"DATA">>},
        variables \in {<<>>, <<"WS-TOTAL">>},
        flow_diagram \in {Flow50, Flow51}}

MeasureInputs ==
    [chars : {1000, 1001}, hashes : {3, 4}, fences : {1, 2},
     mermaid : BOOLEAN, words : {300, 301}]

InitQuality == Init /\ registry = {} /\ groqKey = FALSE

EvaluateAnalysisQuality ==
    /\ \E structured_data \in AnalysisInputs :
          quality' = [target |-> "analysis", input |-> structured_data,
                      result |-> evaluate_analysis_quality(structured_data)]
    /\ UNCHANGED <<pc, prefs, registry, groqKey, memory, frame, sd, outcome,
                   path, calls, doc, parsed, accepted, attempts, history,
                   ledger, shared, env, session>>

EvaluateDocumentationQuality ==
    /\ \E m \in MeasureInputs :
          quality' = [target |-> "documentation", input |-> m,
                      result |-> evaluate_documentation_quality(m)]
    /\ UNCHANGED <<pc, prefs, registry, groqKey, memory, frame, sd, outcome,
                   path, calls, doc, parsed, accepted, attempts, history,
                   ledger, shared, env, session>>

NextQuality == EvaluateAnalysisQuality \/ EvaluateDocumentationQuality

SpecQuality == InitQuality /\ [][NextQuality]_vars
(***************************************************************************)
(* process_ledger_source (app.py 2345-2507), step by step.  The two agent  *)
(* calls either return or raise.                                           *)
(***************************************************************************)
AgentCallOutcomes == {"returned", "raised"}

LedgerUnchanged ==
    UNCHANGED <<pc, prefs, registry, groqKey, memory, frame, sd, outcome, path,
                calls, doc, parsed, accepted, attempts, history, quality,
                shared, env, session>>

\* lines 2355-2370: the request read, the source looked up and moved to
\* Processing
LedgerRequest ==
    /\ ledger.pc \in {"idle", "returned"}
    /\ ledger.served < MaxRequests
    /\ \E source_id \in SourceIds \cup {NoSourceId, UnknownSourceId},
          preferences \in {"object", "list"}, generate_doc \in BOOLEAN :
          LET req == [ledger EXCEPT !.source_id = source_id,
                                    !.preferences = preferences,
                                    !.generate_doc = generate_doc,
                                    !.doc_id = NoDocId, !.moved = FALSE,
                                    !.served = @ + 1]
          IN  ledger' =
                 IF source_id = NoSourceId
                 THEN [req EXCEPT !.pc = "returned", !.response = 400]
                 ELSE IF source_id \notin SourceIds
                 THEN [req EXCEPT !.pc = "returned", !.response = 404]
                 ELSE [req EXCEPT !.pc = "preparing", !.response = 0,
                                  !.moved = TRUE,
                                  !.sources[source_id] = "Processing"]
    /\ LedgerUnchanged

\* lines 2373-2380, outside the inner try: the agent created and the
\* preferences applied with preferences.items(); an error is answered by the
\* outer handler (2505-2507), which touches no status
LedgerPrepareAgent ==
    /\ ledger.pc = "preparing"
    /\ ledger' = IF ledger.preferences = "object"
                 THEN [ledger EXCEPT !.pc = "analyzing"]
                 ELSE [ledger EXCEPT !.pc = "returned", !.response = 500]
    /\ LedgerUnchanged

\* lines 2382-2385
LedgerAnalyze ==
    /\ ledger.pc = "analyzing"
    /\ \E o \in AgentCallOutcomes :
          ledger' = [ledger EXCEPT !.pc = IF o = "raised" THEN "failing"
                                          ELSE "creating"]
    /\ LedgerUnchanged

\* lines 2391-2402: the placeholder document, In Process
LedgerCreateDocument ==
    /\ ledger.pc = "creating"
    /\ ledger' = IF ledger.generate_doc
                 THEN [ledger EXCEPT !.pc = "generating",
                                     !.docs = Append(@, "In Process"),
                                     !.doc_id = Len(ledger.docs) + 1]
                 ELSE [ledger EXCEPT !.pc = "generating"]
    /\ LedgerUnchanged

\* line 2405
LedgerGenerate ==
    /\ ledger.pc = "generating"
    /\ \E o \in AgentCallOutcomes :
          ledger' = [ledger EXCEPT !.pc = IF o = "raised" THEN "failing"
                                          ELSE "storing"]
    /\ LedgerUnchanged

\* lines 2407-2430: the document updated to Pending, the source to Completed
LedgerStore ==
    /\ ledger.pc = "storing"
    /\ ledger' = [ledger EXCEPT
                     !.pc = "rendering",
                     !.docs = IF ledger.generate_doc
                              THEN [@ EXCEPT ![ledger.doc_id] = "Pending"]
                              ELSE @,
                     !.sources[ledger.source_id] = "Completed"]
    /\ LedgerUnchanged

\* lines 2432-2488: the text rendered and answered; the imports at 2433-2434
\* are inside the inner try
LedgerRender ==
    /\ ledger.pc = "rendering"
    /\ \E imported \in BOOLEAN :
          ledger' = IF imported
                    THEN [ledger EXCEPT !.pc = "returned", !.response = 200]
                    ELSE [ledger EXCEPT !.pc = "failing"]
    /\ LedgerUnchanged

\* lines 2490-2503: the inner handler
LedgerFail ==
    /\ ledger.pc = "failing"
    /\ ledger' = [ledger EXCEPT
                     !.pc = "returned", !.response = 500,
                     !.sources[ledger.source_id] = "Error",
                     !.docs = IF ledger.doc_id # NoDocId
                              THEN [@ EXCEPT ![ledger.doc_id] = "Error"]
                              ELSE @]
    /\ LedgerUnchanged

InitLedger == Init /\ registry = {} /\ groqKey = FALSE

NextLedger ==
    \/ LedgerRequest
    \/ LedgerPrepareAgent
    \/ LedgerAnalyze
    \/ LedgerCreateDocument
    \/ LedgerGenerate
    \/ LedgerStore
    \/ LedgerRender
    \/ LedgerFail

SpecLedger == InitLedger /\ [][NextLedger]_vars
(***************************************************************************)
(* save_api_keys (app.py 1526-1567) adding the Groq credential while       *)
(* pipeline runs resolve their provider (agent_fixed.py 150-169).  Each    *)
(* statement that writes or reads the environment or the registry is a     *)
(* step of its own.                                                        *)
(***************************************************************************)
YesNo(b) == IF b THEN "yes" ELSE "no"

KeysUnchanged ==
    UNCHANGED <<pc, prefs, memory, frame, sd, outcome, path, calls, doc,
                parsed, accepted, attempts, history, quality, ledger, env, session>>

\* lines 1550-1555: os.environ['GROQ_API_KEY'] = groq_key, when one is given
SaveKeysSetEnvironment ==
    /\ shared.save = "idle"
    /\ \E groq_key \in {"", "gsk"} :
          IF groq_key # ""
          THEN groqKey' = TRUE /\ shared' = [shared EXCEPT !.save = "env_set"]
          ELSE groqKey' = groqKey /\ shared' = [shared EXCEPT !.save = "done"]
    /\ UNCHANGED registry
    /\ KeysUnchanged

\* lines 1563-1565: the selector re-initialised when groq is not registered;
\* _initialize_providers registers the providers whose key is present
SaveKeysReinitialize ==
    /\ shared.save = "env_set"
    /\ registry' = IF "groq" \notin registry /\ groqKey
                   THEN registry \cup {"groq"} ELSE registry
    /\ shared' = [shared EXCEPT !.save = "done"]
    /\ UNCHANGED groqKey
    /\ KeysUnchanged

\* line 150: current_provider in llm_selector.get_providers(), groq preferred
RunReadsRegistry(r) ==
    /\ shared.runs[r].pc = "start"
    /\ shared' = [shared EXCEPT
                     !.runs[r].registered = YesNo("groq" \in registry),
                     !.runs[r].pc = IF "groq" \in registry THEN "done"
                                    ELSE "registry_read"]
    /\ UNCHANGED <<registry, groqKey>>
    /\ KeysUnchanged

\* line 160: os.environ.get("GROQ_API_KEY"), read when groq is not registered
RunReadsCredential(r) ==
    /\ shared.runs[r].pc = "registry_read"
    /\ shared' = [shared EXCEPT !.runs[r].key = YesNo(groqKey),
                                !.runs[r].pc = "done"]
    /\ UNCHANGED <<registry, groqKey>>
    /\ KeysUnchanged

InitKeys == Init /\ registry \subseteq Providers \ {"groq"} /\ groqKey = FALSE

NextKeys ==
    \/ SaveKeysSetEnvironment
    \/ SaveKeysReinitialize
    \/ \E r \in RunIds : RunReadsRegistry(r) \/ RunReadsCredential(r)

SpecKeys == InitKeys /\ [][NextKeys]_vars
(***************************************************************************)
(* Two agents alive at the same time (agent_fixed.py 17-48).  An agent's   *)
(* session id is its own name.  agent_monitor and llm_selector are not     *)
(* part of the sources at hand: start_session makes the session the        *)
(* monitor's current one, end_session() and log_decision(), which are      *)
(* given no session, act on the current one.                               *)
(***************************************************************************)
AgentsUnchanged ==
    UNCHANGED <<pc, prefs, registry, groqKey, memory, frame, sd, outcome, path,
                calls, doc, parsed, accepted, attempts, history, quality,
                ledger, env, session>>

\* __init__, lines 17-40: user_preferences is still empty, so the provider
\* and the model set on the selector are the defaults
AgentCreate(a) ==
    /\ shared.agents[a].pc = "none"
    /\ shared' = [shared EXCEPT
                     !.agents[a].pc = "alive",
                     !.monitor = a,
                     !.selector =
                        IF registry = {} THEN @
                        ELSE [provider |-> IF DefaultProvider \in registry
                                           THEN DefaultProvider ELSE @.provider,
                              model |-> DefaultModel]]
    /\ AgentsUnchanged

\* agent_monitor.log_decision(...), e.g. lines 83-88: the record goes to the
\* monitor's current session
AgentLogsDecision(a) ==
    /\ shared.agents[a].pc = "alive"
    /\ shared' = [shared EXCEPT !.agents[a].logged = @ \cup {shared.monitor}]
    /\ AgentsUnchanged

\* __del__, lines 42-48: agent_monitor.end_session()
AgentDestroy(a) ==
    /\ shared.agents[a].pc = "alive"
    /\ shared' = [shared EXCEPT !.agents[a].pc = "gone", !.monitor = NoSession]
    /\ AgentsUnchanged

InitAgents == Init

NextAgents ==
    \E a \in AgentIds : AgentCreate(a) \/ AgentLogsDecision(a) \/ AgentDestroy(a)

SpecAgents == InitAgents /\ [][NextAgents]_vars

Next ==
    \/ SetUserPreference
    \/ AnalyzeCall
    \/ AnalyzeRun
    \/ GenerateCall
    \/ Compose
    \/ ValidateRepair
    \/ Enhance
    \/ PostProcess
\* the pipeline with a decision log that works or fails
InitLog ==
    /\ InitAgent
    /\ registry \subseteq {"groq"}
    /\ env \in {e \in Envs : e.enrichment = "plain"
                            /\ e.request_keys = {"enhanced_diagrams"}}

SpecLog == InitLog /\ [][Next]_vars

\* the pipeline with every behaviour of the enrichment, for requests that
\* carry an audience
InitEnrichment ==
    /\ InitAgent
    /\ registry \subseteq {"groq"}
    /\ env \in {e \in Envs : ~e.log_fails
                            /\ e.request_keys = {"audience", "enhanced_diagrams"}}

SpecEnrichment == InitEnrichment /\ [][Next]_vars

\* what earlier calls on the same agent left behind: remembered items
\* (lines 224-228 and 385-389) and the monitor's records
StaleAnalysis ==
    [type |-> "cobol_analysis", program_id |-> "STALE",
     description |-> "Stale description."]

StaleDocumentation ==
    [type |-> "documentation", program_id |-> "STALE",
     doc_preview |-> <<"STALE-TEXT">>]

PriorMemories == {<<>>, <<StaleAnalysis>>, <<StaleAnalysis, StaleDocumentation>>}

PriorLogs == {NoSession, "stale-session"}

\* the pipeline run by an agent with some memory and some log already
InitRecall ==
    /\ \E m \in PriorMemories : \E l \in PriorLogs : InitWith(m, l)
    /\ registry \subseteq {"groq"}
    /\ env = [NominalEnv EXCEPT !.request_keys = {"enhanced_diagrams"}]

SpecRecall == InitRecall /\ [][Next]_vars

(***************************************************************************)
(* The heuristic pre-parse alone (lines 90-96), on sources made of a few   *)
(* statements.                                                             *)
(***************************************************************************)
MaxMarkers == 4

SrcPieces ==
    {<<"PROGRAM-ID", ".", "PAYROLL", ".">>, <<"PROCEDURE", "DIVISION", ".">>,
     <<"DATA", "DIVISION", ".">>, <<"DATA", "DIVISION">>, <<"PAYROLL">>,
     <<"DIVISION">>}

PreparseSources == {Flatten(ps) : ps \in SeqsUpTo(SrcPieces, MaxMarkers)}

InitPreparse == Init /\ registry = {} /\ groqKey = FALSE

\* lines 90-96: no structure was handed in, the agent builds its own
Preparse ==
    /\ pc = "new"
    /\ \E code \in PreparseSources :
          frame' = [op |-> "analyze_cobol_structure", cobol_code |-> code,
                    parsed_structure |-> EffectiveSkeleton(code, None)]
    /\ pc' = "preparsed"
    /\ UNCHANGED <<prefs, registry, groqKey, memory, sd, outcome, path, calls,
                   doc, parsed, accepted, attempts, history, quality,
                   ledger, shared, env, session>>

NextPreparse == Preparse

SpecPreparse == InitPreparse /\ [][NextPreparse]_vars

(***************************************************************************)
(* _separate_thinking_process alone (lines 745-790), applied to a text and *)
(* then to its own result.                                                 *)
(***************************************************************************)
MaxDocLen == 4

DocTokens == {"WS", "T", "H", "HD", "HT"}

Documents == SeqsUpTo(DocTokens, MaxDocLen)

InitSeparate == Init /\ registry = {} /\ groqKey = FALSE

SeparateCall ==
    /\ pc = "new"
    /\ \E documentation \in Documents :
          /\ frame' = [op |-> "separate_thinking_process",
                       documentation |-> documentation]
          /\ doc' = separate_thinking_process(documentation)
    /\ pc' = "separated"
    /\ UNCHANGED <<prefs, registry, groqKey, memory, sd, outcome, path, calls,
                   parsed, accepted, attempts, history, quality,
                   ledger, shared, env, session>>

SeparateAgain ==
    /\ pc = "separated"
    /\ doc' = separate_thinking_process(doc)
    /\ pc' = "separated twice"
    /\ UNCHANGED <<prefs, registry, groqKey, memory, frame, sd, outcome, path,
                   calls, parsed, accepted, attempts, history, quality,
                   ledger, shared, env, session>>

NextSeparate == SeparateCall \/ SeparateAgain

SpecSeparate == InitSeparate /\ [][NextSeparate]_vars

(***************************************************************************)
(* The job endpoints of app.py: upload_cobol, process_cobol and            *)
(* get_job_status, each request a step (the session is written back with   *)
(* the response, also with an error response returned by a handler).       *)
(***************************************************************************)
MaxJobs == 3

JobIds == 1..MaxJobs

JobsUnchanged ==
    UNCHANGED <<pc, prefs, registry, groqKey, memory, frame, sd, outcome, path,
                calls, doc, parsed, accepted, attempts, history, quality,
                ledger, shared, env>>

\* app.py 460-533: the new job id is put in the session before the request
\* is examined; the code is stored only when there is some
UploadRequests == {"no code", "blank code", "code"}

upload_cobol ==
    /\ session.next <= MaxJobs
    /\ \E given \in UploadRequests :
          session' = [session EXCEPT
                         !.next = @ + 1,
                         !.job_id = session.next,
                         !.cobol_code = IF given = "code" THEN TRUE ELSE @]
    /\ JobsUnchanged

\* app.py 537-741.  "raises": one of the steps of 593-620 raises and the
\* handler at 739-741 answers 500; "completed": the status is set at 681 or
\* 710; "unconverted": the handler at 729-737 answers success without
\* setting the status
ProcessOutcomes == {"raises", "completed", "unconverted"}

process_cobol ==
    /\ session.next <= MaxJobs
    /\ \E given \in BOOLEAN : \E o \in ProcessOutcomes :
          LET job_id == session.next
          IN  IF ~given /\ ~session.cobol_code
              THEN \* 574-576: nothing to process, 400
                   session' = [session EXCEPT !.next = @ + 1]
              ELSE session' =
                      [session EXCEPT
                          !.next = @ + 1,
                          !.cobol_code = TRUE,
                          !.job_id = job_id,
                          !.job_status =
                              [status |-> IF o = "completed" THEN "completed"
                                          ELSE "processing",
                               job |-> job_id],
                          !.documentation = IF o = "raises" THEN @ ELSE job_id,
                          !.failed = IF o = "raises" THEN @ \cup {job_id} ELSE @]
    /\ JobsUnchanged

\* app.py 1090-1123: the answer to a status query for job_id
JobStatusAnswer(job_id) ==
    IF session.job_id = job_id /\ session.documentation # NoJob
    THEN [job |-> job_id, status |-> "completed",
          documentation |-> session.documentation]
    ELSE IF session.job_id = job_id /\ session.job_status # NoStatus
    THEN [job |-> job_id, status |-> session.job_status.status,
          documentation |-> NoJob]
    ELSE [job |-> job_id, status |-> "processing", documentation |-> NoJob]

\* app.py 1059-1126: a client asks for the status of a job id it was given
get_job_status(job_id) ==
    /\ job_id < session.next
    /\ session' = [session EXCEPT !.polled = JobStatusAnswer(job_id)]
    /\ JobsUnchanged

InitJobs == Init /\ registry = {} /\ groqKey = FALSE

NextJobs ==
    \/ upload_cobol
    \/ process_cobol
    \/ \E job_id \in JobIds : get_job_status(job_id)

SpecJobs == InitJobs /\ [][NextJobs]_vars

\* a client that polls keeps polling: every status query that would change
\* the last answer is eventually made
SpecJobsPolling ==
    SpecJobs /\ \A job_id \in JobIds : WF_vars(get_job_status(job_id))

Spec == Init /\ [][Next]_vars

(***************************************************************************)
(* Properties.                                                             *)
(***************************************************************************)
Analyzed == frame.op = "analyze_cobol_structure" /\ outcome = "returned"
Documented == frame.op = "generate_documentation" /\ outcome = "returned"

\* C1: the text generate_documentation returns contains at least one closed
\* fenced mermaid block whose code passes the validator.
C1_ReturnedTextHasValidDiagram == Documented => ValidBlocks(doc) # {}

\* C2: analyze_cobol_structure never raises to its caller, whatever provider
\* resolution and the LLM invocation produce.
C2_AnalysisNeverRaises ==
    ~(frame.op = "analyze_cobol_structure" /\ outcome = "raised")

\* C3: generate_documentation never raises to its caller, whatever the primary
\* and the fallback LLM invocation produce.
C3_DocumentationNeverRaises ==
    ~(frame.op = "generate_documentation" /\ outcome = "raised")

\* C4: every analysis analyze_cobol_structure returns has a program id, and
\* the program id is not empty.
C4_ProgramIdNeverEmpty ==
    Analyzed => Has(sd, "program_id") /\ sd.program_id # ""

Preferred == get_user_preference("llm_provider", DefaultProvider)
PreferredModel == get_user_preference("llm_model", DefaultModel)
Resolved ==
    /\ frame.op \in {"analyze_cobol_structure", "generate_documentation"}
    /\ pc \notin {"analyzing", "composing"}
StageCalls == SelectSeq(calls, LAMBDA c : c.purpose \in {"analysis", "compose"})
DegradedOutput ==
    /\ StageCalls = <<>>
    /\ frame.op = "analyze_cobol_structure" =>
          outcome = "returned" /\ sd.description = NoKeyMessage
    /\ frame.op = "generate_documentation" /\ calls = <<>> => doc = NoKeyDocument

NoProviderCase == Analyzed /\ registry = {} /\ ~groqKey

ParseFailed == frame.op = "analyze_cobol_structure" /\ parsed = "error"

\* C7 (as the code has it): when the LLM text does not parse, the call
\* returns the fallback of exactly program id, fixed description and
\* divisions, the program id and the divisions being those found in the
\* source text, whatever pre-parsed structure the caller supplied.
C7_ParseFailureFallback ==
    ParseFailed =>
        /\ outcome = "returned"
        /\ sd.keys = {"program_id", "description", "divisions"}
        /\ sd.description = ParseFailMessage
        /\ sd.program_id = extract_program_id(frame.cobol_code)
        /\ sd.divisions = identify_divisions(frame.cobol_code)

\* C7 reached: a parse failure with a caller-supplied structure whose program
\* id differs from the one returned.
C7_FallbackIgnoresSuppliedStructure ==
    /\ ParseFailed /\ outcome = "returned"
    /\ frame.parsed_structure.kind = "skeleton"
    /\ sd.program_id # frame.parsed_structure.program_id

\* C7 as first stated: on a parse failure the program id and the divisions of
\* the fallback are those of the structure the call was given.
C7_FallbackFromGivenSkeleton ==
    ParseFailed =>
        /\ outcome = "returned"
        /\ sd.description = ParseFailMessage
        /\ sd.program_id =
              EffectiveSkeleton(frame.cobol_code, frame.parsed_structure).program_id
        /\ sd.divisions =
              EffectiveSkeleton(frame.cobol_code, frame.parsed_structure).divisions

\* C8: after any sequence of remember calls the memory holds at most 10
\* items, and they are the most recent min(n, 10) items in insertion order.
C8_MemoryKeepsLastTen ==
    LET n == Len(history)
        k == IF n < 10 THEN n ELSE 10
    IN  /\ Len(memory) <= 10
        /\ memory = SubSeq(history, n - k + 1, n)

\* C8 reached: more than ten items remembered, the oldest evicted.
C8_OldestEvicted ==
    Len(history) > 10 /\ Len(memory) = 10 /\ memory # SubSeq(history, 1, 10)

Satisfied(target, input) ==
    IF target = "analysis"
    THEN <<Has(input, "program_id") /\ input.program_id # "Unknown",
           Has(input, "description") /\ Len(input.description) > 20,
           Has(input, "divisions") /\ Len(input.divisions) >= 1,
           Has(input, "variables") /\ Len(input.variables) >= 1,
           Has(input, "flow_diagram") /\ Len(input.flow_diagram) > 50>>
    ELSE <<input.chars > 1000, input.hashes > 3, input.fences >= 2,
           input.mermaid, input.words > 300>>

NumberSatisfied(target, input) ==
    Cardinality({i \in 1..5 : Satisfied(target, input)[i]})

\* C9: for both evaluators the score is the number of satisfied criteria of
\* the five, the notes hold one entry per unsatisfied criterion, and the level
\* is low for a score below 2, medium for 2 or 3, high for 4 or 5.
C9_QualityRubric ==
    quality.target \in {"analysis", "documentation"} =>
        LET n == NumberSatisfied(quality.target, quality.input)
        IN  /\ quality.result.quality_score = n
            /\ n \in 0..5
            /\ Len(quality.result.quality_notes) = 5 - n
            /\ quality.result.quality_level =
                  (IF n < 2 THEN "low" ELSE IF n < 4 THEN "medium" ELSE "high")

\* C9 reached: an analysis satisfying exactly two criteria is rated medium
\* with three notes.
C9_TwoCriteriaIsMedium ==
    /\ quality.target = "analysis"
    /\ NumberSatisfied("analysis", quality.input) = 2
    /\ quality.result.quality_level = "medium"
    /\ Len(quality.result.quality_notes) = 3

\* C10 (as the code has it): the enhancement step replaces the document only
\* by an enhanced text that, after the correction attempts, contains at least
\* one mermaid marker; the text it returns contains at least one mermaid
\* marker, and otherwise is the document unchanged.
C10_EnhancedAcceptedOnlyWithDiagram ==
    [][pc = "enhancing" =>
          /\ accepted' => CountMermaid(doc') > 0
          /\ ~accepted' => doc' = doc
          /\ CountMermaid(doc') >= 1]_vars

\* C10 reached: an enhanced text was accepted after both correction attempts.
C10_EnhancedAccepted ==
    pc = "postprocessing" /\ accepted /\ attempts = max_attempts

\* C10 as first stated: the number of mermaid blocks after the enhancement
\* step is never lower than before it.
C10_DiagramCountNeverDrops ==
    [][pc = "enhancing" => CountMermaid(doc') >= CountMermaid(doc)]_vars

C12_RequestEndsCompletedOrError ==
    (ledger.pc = "returned" /\ ledger.moved) =>
        LET status == ledger.sources[ledger.source_id]
            made == ledger.doc_id # NoDocId
        IN  /\ status # "Processing"
            /\ made => ledger.docs[ledger.doc_id] # "In Process"
            /\ ledger.response = 200 =>
                  status = "Completed" /\ (made => ledger.docs[ledger.doc_id] = "Pending")
            /\ ledger.response # 200 => status = "Error"

\* C13: a run that resolves its provider while save_api_keys adds the Groq
\* credential does not observe the credential present with the provider not
\* registered.
C13_NoHalfUpdatedRegistrySeen ==
    \A r \in RunIds :
        ~(shared.runs[r].registered = "no" /\ shared.runs[r].key = "yes")

\* C14: two agents alive at the same time are independent: every decision
\* an agent logs goes to its own session, whatever agents were created or
\* destroyed meanwhile.
C14_DecisionsGoToOwnSession ==
    \A a \in AgentIds : shared.agents[a].logged \subseteq {a}

\* C15: an error of the decision log fails no stage: neither
\* analyze_cobol_structure nor generate_documentation raises because
\* log_decision raised.
C15_LogFailureFailsNoStage ==
    ~(outcome = "raised" /\ path = LogFailure)

Generating == frame.op = "generate_documentation"

\* C17: when enrichment fails, generate_documentation goes on with the
\* analysis it was given, no key added, and returns a text; it raises only
\* when the composing LLM call made through the selector raised.
C17_EnrichmentFailureIsSkipped ==
    (Generating /\ env.enrichment = "fails") =>
        /\ frame.data = frame.structured_data
        /\ pc \in {"composing", "validating", "enhancing", "postprocessing",
                   "documented", "failed"}
        /\ pc = "documented" => outcome = "returned"
        /\ pc = "failed" => path.via = "selector" /\ calls # <<>>

\* C17 reached: enrichment failed and a text was returned.
C17_ReturnedAfterEnrichmentFailure ==
    Documented /\ env.enrichment = "fails" /\ doc # <<>>

Position(text, token) ==
    IF \E i \in 1..Len(text) : text[i] = token
    THEN CHOOSE i \in 1..Len(text) :
            text[i] = token /\ \A j \in 1..(i - 1) : text[j] # token
    ELSE 0

BusinessWithExplanations ==
    /\ Documented
    /\ get_user_preference("audience", "technical") = "business"
    /\ Has(frame.data, "construct_explanations")

\* C18: for the audience "business" and an enrichment that supplied construct
\* explanations, the text returned holds a section "Simplified Explanations"
\* and, inside it, the explanation text of every construct supplied.
C18_SimplifiedExplanationsListed ==
    BusinessWithExplanations =>
        LET section == Position(doc, "H2S")
            e == frame.data.construct_explanations
        IN  /\ section # 0
            /\ \A k \in 1..Len(e) :
                  e[k].explanation # "" =>
                     \E j \in (section + 1)..Len(doc) : doc[j] = e[k].explanation

\* C18 reached: two constructs were supplied and the second is in the text.
C18_TwoExplanationsListed ==
    /\ BusinessWithExplanations
    /\ Len(frame.data.construct_explanations) = 2
    /\ \E j \in 1..Len(doc) : doc[j] = "EX-COMPUTE"

StaleValues == {"STALE", "Stale description.", "STALE-TEXT", "stale-session"}

EmptyBlocks(text) ==
    LET ms == Matches(text, 1)
    IN  {k \in 1..Len(ms) : CodeOf(text, ms[k]) = <<>>}

Preparsed == pc = "preparsed"

Holds(code, piece) ==
    \E i \in 1..(Len(code) - Len(piece) + 1) :
        SubSeq(code, i, i + Len(piece) - 1) = piece

\* C20 as stated: the divisions of the skeleton are the names of the DIVISION
\* markers in source order, less every name equal to the one just before it.
C20_AdjacentRepeatsRemoved ==
    Preparsed =>
        frame.parsed_structure.divisions =
            DropAdjacentRepeats(DivisionsFrom(frame.cobol_code, 1))

\* C20 amended: the divisions of the skeleton are the names of all the
\* DIVISION markers in source order, repeats kept whether adjacent or not; a
\* source with PROGRAM-ID. PAYROLL. and a PROCEDURE DIVISION marker gives the
\* program id PAYROLL and divisions holding PROCEDURE.
C20_EveryMarkerListed ==
    Preparsed =>
        LET code == frame.cobol_code
            skeleton == frame.parsed_structure
        IN  /\ skeleton.divisions = DivisionsFrom(code, 1)
            /\ (Holds(code, <<"PROGRAM-ID", ".", "PAYROLL", ".">>)
                /\ Holds(code, <<"PROCEDURE", "DIVISION">>)) =>
                  /\ skeleton.program_id = "PAYROLL"
                  /\ \E i \in 1..Len(skeleton.divisions) :
                        skeleton.divisions[i] = "PROCEDURE"

\* C20 reached: a source with the same marker twice in a row, and again later.
C20_RepeatedMarkers ==
    Preparsed /\ frame.parsed_structure.divisions = <<"DATA", "DATA", "PROCEDURE", "DATA">>

C22_ScoreIsOfValidatedText ==
    (Generating /\ pc = "postprocessing") =>
        /\ quality.target = "documentation"
        /\ quality.result = evaluate_documentation_quality(Measure(doc))

CallsFor(purpose) == {i \in 1..Len(calls) : calls[i].purpose = purpose}

C24_FailedEnhancementKeepsText ==
    [][(pc = "enhancing" /\ pc' = "postprocessing" /\ ~accepted') =>
          doc' = doc]_vars

\* C24 reached: an enhanced text went through the correction loop and was
\* not accepted.
C24_EnhancedTextRejected ==
    /\ pc = "postprocessing" /\ CallsFor("enhance") # {}
    /\ attempts >= 1 /\ ~accepted

Separated == pc = "separated"

\* where the text is split: at the documentation title if it has one, else
\* at its first top-level heading; 0 when it has neither
SplitPosition(text) ==
    IF Position(text, "HD") # 0 THEN Position(text, "HD")
    ELSE IF \E i \in 1..Len(text) : text[i] \in {"H", "HT"}
    THEN CHOOSE i \in 1..Len(text) :
            /\ text[i] \in {"H", "HT"}
            /\ \A j \in 1..(i - 1) : text[j] \notin {"H", "HT"}
    ELSE 0

NonBlank(text) == Cardinality({i \in 1..Len(text) : text[i] # "WS"})

HasPreamble(text) ==
    /\ SplitPosition(text) > 1
    /\ NonBlank(SubSeq(text, 1, SplitPosition(text) - 1)) > 0

\* C25: when content precedes the heading at which the text is split, the
\* result is the text from that heading on, then the Thinking Process
\* heading, then the preceding content, each without the blanks around it;
\* nothing else is dropped.
C25_PreambleMovedToEnd ==
    (Separated /\ HasPreamble(frame.documentation)) =>
        LET text == frame.documentation
            p == SplitPosition(text)
        IN  /\ doc = Strip(SubSeq(text, p, Len(text))) \o <<"HT">>
                        \o Strip(SubSeq(text, 1, p - 1))
            /\ NonBlank(doc) = NonBlank(text) + 1

\* C25 reached: a text with a paragraph and a heading before its title.
C25_TitleAfterHeading ==
    Separated /\ frame.documentation = <<"T", "H", "HD", "T">>
              /\ doc = <<"HD", "T", "HT", "T", "H">>

\* a text from its first to its last token that is not blank
Trimmed(text) ==
    LET S == {i \in 1..Len(text) : text[i] # "WS"}
    IN  IF S = {} THEN <<>>
        ELSE SubSeq(text, CHOOSE i \in S : \A j \in S : i <= j,
                          CHOOSE i \in S : \A j \in S : j <= i)

\* C26 as stated: a text without preamble is returned unchanged, and a second
\* application changes nothing.
C26_NoPreambleUnchanged ==
    [][/\ (pc' = "separated" /\ ~HasPreamble(frame'.documentation)) =>
             doc' = frame'.documentation
       /\ pc' = "separated twice" => doc' = doc]_vars

\* C26 amended: a text without any top-level heading is returned unchanged; a
\* text with a heading and nothing but blanks before it is returned without
\* its leading and trailing blanks; a second application changes nothing.
C26_NoPreambleTrimmed ==
    [][/\ (pc' = "separated" /\ ~HasPreamble(frame'.documentation)) =>
             doc' = IF SplitPosition(frame'.documentation) = 0
                    THEN frame'.documentation
                    ELSE Trimmed(frame'.documentation)
       /\ pc' = "separated twice" => doc' = doc]_vars

\* C26 reached: a text that starts with its heading and ends with a blank
\* line, separated twice.
C26_TrailingBlankRemoved ==
    /\ pc = "separated twice"
    /\ frame.documentation = <<"H", "T", "WS">>
    /\ doc = <<"H", "T">>

BasicDiagramAppended ==
    /\ Generating /\ pc = "enhancing" /\ Len(doc) >= 4
    /\ SubSeq(doc, Len(doc) - 3, Len(doc)) = <<"H2", "M", BasicDiagram, "F">>

\* C27: the default diagram appended to a text without diagram is built from
\* the analysis: it carries its program id or its description.
C27_DefaultDiagramFromContext ==
    BasicDiagramAppended =>
        \/ Get(frame.data, "program_id", "Program") \in BasicDiagramLabels
        \/ Get(frame.data, "description", "COBOL Program") \in BasicDiagramLabels

\* C28: without the preference enhanced_diagrams no enhancement call is made
\* and no LLM-enhanced text replaces the document.
C28_NoEnhancementUnlessRequested ==
    (Generating /\ prefs["enhanced_diagrams"] = Unset) =>
        CallsFor("enhance") = {} /\ ~accepted

\* C29: a status query answered 'completed' carries the documentation that
\* was generated for the job id asked about.
C29_CompletedWithOwnDocumentation ==
    session.polled.status = "completed" =>
        session.polled.documentation = session.polled.job

\* C30: once the processing of a job has failed after its status was set to
\* 'processing', the status queries for that job are eventually answered
\* with a status other than 'processing'.
C30_FailedJobLeavesProcessing ==
    \A job_id \in JobIds :
        (job_id \in session.failed) ~>
            (session.polled.job = job_id /\ session.polled.status # "processing")

====
